---- MODULE Spec2Model ----
(***************************************************************************)
(* Model of the wiring-diagram tools of atenta-haisen.                     *)
(*                                                                         *)
(*  - ImageGeneratorTool (src/components/ImageGeneratorTool.tsx): the      *)
(*    manual marker placement controller (3-point variant "1","A","2"),    *)
(*    its asynchronous file upload and its generation handler.             *)
(*  - drawWiringOnCanvas in its two variants: the 3-point renderer of      *)
(*    src/services/geminiService.ts and the 4-point renderer of            *)
(*    src/unnamed/part_001.                                                *)
(*  - detectMarkerCoordinates, generateManualWiringDiagram and             *)
(*    generateWiringDiagramsBatch (src/services/geminiService.ts): the     *)
(*    generation of ImageGeneratorTool followed promise by promise.        *)
(*                                                                         *)
(* JavaScript numbers are modelled as exact rationals [n, d] in lowest     *)
(* terms (d > 0); the arithmetic of the source is carried out on them.     *)
(***************************************************************************)
EXTENDS Integers, Sequences, FiniteSets, TLC

VARIABLES
    status,          \* LoadingStatus of ImageGeneratorTool
    resultImages,    \* string[] : the generated outputs shown
    originalImage,   \* the uploaded image (NoImage = null)
    error,           \* error message shown (NoError = null)
    markerCoords,    \* MarkerCoordinates being built by hand
    activeMarkerId,  \* the marker the next click places
    uploads,         \* processFile calls suspended in fileToBase64
    gens,            \* handleGenerate calls suspended in an await
    lastEvent,       \* the event the last handler ran on
    placements,      \* consecutive placements since the initial state
    render           \* one drawWiringOnCanvas call (promise, canvas, draw log)

vars == <<status, resultImages, originalImage, error, markerCoords,
          activeMarkerId, uploads, gens, lastEvent, placements, render>>

uiVars == <<status, resultImages, originalImage, error, markerCoords,
            activeMarkerId, uploads, gens, lastEvent, placements>>

-----------------------------------------------------------------------------
(* JavaScript numbers as exact rationals                                   *)

Abs(i) == IF i < 0 THEN -i ELSE i

RECURSIVE GCD(_, _)
GCD(a, b) == IF b = 0 THEN a ELSE GCD(b, a % b)

\* the number n/d (d > 0) in lowest terms
Num(n, d) == LET g == GCD(Abs(n), d) IN [n |-> n \div g, d |-> d \div g]

NumInt(i) == [n |-> i, d |-> 1]

\* a / b for b > 0
NumDiv(a, b) == Num(a.n * b.d, a.d * b.n)

NumMul(a, b) == Num(a.n * b.n, a.d * b.d)

NumAdd(a, b) == Num(a.n * b.d + b.n * a.d, a.d * b.d)

NumSub(a, b) == Num(a.n * b.d - b.n * a.d, a.d * b.d)

\* Math.abs
NumAbs(a) == [n |-> Abs(a.n), d |-> a.d]

\* a < b
NumLess(a, b) == a.n * b.d < b.n * a.d

\* Math.max(a, b)
NumMax(a, b) == IF NumLess(a, b) THEN b ELSE a

-----------------------------------------------------------------------------
(* Values of the manual placement tool                                     *)

\* null and undefined (a key missing from an object reads as undefined)
Null == [js |-> "null"]
Undefined == [js |-> "undefined"]

\* !c of JavaScript for c a position object, null or undefined
Falsy(c) == c = Null \/ c = Undefined

\* the markers of the 3-point variant, in declaration order
MarkerKeys3 == <<"1", "A", "2">>
Markers3 == {"1", "A", "2"}

\* useState initial values
NoImage == 0
NoError == "null"
EmptyMarkers == [k \in Markers3 |-> Null]

\* the event handled last: nothing yet
NoEvent == [op |-> "none"]

-----------------------------------------------------------------------------
(* Inputs of the manual placement tool                                     *)

\* at most this many file reads (fileToBase64) are suspended at once
MaxUploads == 2

\* consecutive placements are counted up to this many
MaxPlacements == 4

\* the placements made were not consecutive from the initial state
Interrupted == MaxPlacements + 1

\* the image files a user uploads
ImageIds == {1, 2}

\* imageRef.current.getBoundingClientRect() of the displayed image
Rects == {[left |-> 10, top |-> 20, width |-> 300, height |-> 600]}

\* pointer positions (clientX, clientY) of the clicks; the last one lies
\* outside the displayed image (left of it and below it)
Pointers == {[clientX |-> 160, clientY |-> 320],
             [clientX |-> 166, clientY |-> 308],
             [clientX |-> 166, clientY |-> 317],
             [clientX |-> -20, clientY |-> 720]}

-----------------------------------------------------------------------------
(* ImageGeneratorTool: which view is rendered                              *)

InLoadingView == status = "LOADING"

InResultView == status = "SUCCESS" /\ resultImages # <<>>

InInitialView == ~InLoadingView /\ ~InResultView

\* the upload area is rendered (no image yet)
UploadAreaShown == InInitialView /\ originalImage = NoImage

\* the workspace image, the marker toolbar and the click area are rendered
ImageShown == InInitialView /\ originalImage # NoImage

-----------------------------------------------------------------------------
(* ImageGeneratorTool: manual placement                                    *)

\* Normalize with the result clamped to [0, 1000]
Normalize_Clamped(p, size) ==
    LET v == NumMul(NumDiv(NumInt(p), NumInt(size)), NumInt(1000))
    IN IF NumLess(v, NumInt(0)) THEN NumInt(0)
       ELSE IF NumLess(NumInt(1000), v) THEN NumInt(1000) ELSE v

\* raw normalized coordinate (p / size) * 1000 of a pointer-local offset
Normalize(p, size) == NumMul(NumDiv(NumInt(p), NumInt(size)), NumInt(1000))

\* the predecessor of the active marker (prevPointKey), Null when none
PrevPointKey(id) == IF id = "A" THEN "1" ELSE IF id = "2" THEN "A" ELSE "null"

\* SnapPoint comparing dx <= dy: a tie snaps to the vertical line
SnapPoint_TieVertical(nx, ny, shiftKey, id, coords) ==
    LET prevPointKey == PrevPointKey(id)
        prevPoint == IF prevPointKey = "null" THEN Null ELSE coords[prevPointKey]
    IN IF shiftKey /\ prevPointKey # "null" /\ ~Falsy(prevPoint)
       THEN LET dx == NumAbs(NumSub(nx, prevPoint.x))
                dy == NumAbs(NumSub(ny, prevPoint.y))
            IN IF ~NumLess(dy, dx)
               THEN [x |-> prevPoint.x, y |-> ny]
               ELSE [x |-> nx, y |-> prevPoint.y]
       ELSE [x |-> nx, y |-> ny]

\* SnapPoint with the two branches exchanged: the larger delta is removed
SnapPoint_Swapped(nx, ny, shiftKey, id, coords) ==
    LET prevPointKey == PrevPointKey(id)
        prevPoint == IF prevPointKey = "null" THEN Null ELSE coords[prevPointKey]
    IN IF shiftKey /\ prevPointKey # "null" /\ ~Falsy(prevPoint)
       THEN LET dx == NumAbs(NumSub(nx, prevPoint.x))
                dy == NumAbs(NumSub(ny, prevPoint.y))
            IN IF NumLess(dy, dx)
               THEN [x |-> prevPoint.x, y |-> ny]
               ELSE [x |-> nx, y |-> prevPoint.y]
       ELSE [x |-> nx, y |-> ny]

\* SnapPoint that does not test e.shiftKey
SnapPoint_NoModifier(nx, ny, shiftKey, id, coords) ==
    LET prevPointKey == PrevPointKey(id)
        prevPoint == IF prevPointKey = "null" THEN Null ELSE coords[prevPointKey]
    IN IF prevPointKey # "null" /\ ~Falsy(prevPoint)
       THEN LET dx == NumAbs(NumSub(nx, prevPoint.x))
                dy == NumAbs(NumSub(ny, prevPoint.y))
            IN IF NumLess(dx, dy)
               THEN [x |-> prevPoint.x, y |-> ny]
               ELSE [x |-> nx, y |-> prevPoint.y]
       ELSE [x |-> nx, y |-> ny]

\* the position committed for a click at raw (nx, ny): axis alignment
\* relative to the predecessor when SHIFT is held
SnapPoint(nx, ny, shiftKey, id, coords) ==
    LET prevPointKey == PrevPointKey(id)
        prevPoint == IF prevPointKey = "null" THEN Null ELSE coords[prevPointKey]
    IN IF shiftKey /\ prevPointKey # "null" /\ ~Falsy(prevPoint)
       THEN LET dx == NumAbs(NumSub(nx, prevPoint.x))
                dy == NumAbs(NumSub(ny, prevPoint.y))
            IN IF NumLess(dx, dy)
               THEN [x |-> prevPoint.x, y |-> ny]
               ELSE [x |-> nx, y |-> prevPoint.y]
       ELSE [x |-> nx, y |-> ny]

\* PlaceMarker without the spread of prev: the other entries are lost
PlaceMarker_NoSpread(coords, id, pt) == [EmptyMarkers EXCEPT ![id] = pt]

\* setMarkerCoords(prev => ({ ...prev, [activeMarkerId]: pt }))
PlaceMarker(coords, id, pt) == [coords EXCEPT ![id] = pt]

\* NextId that wraps around from the last marker to the first
NextId_Wrap(id) == IF id = "1" THEN "A" ELSE IF id = "A" THEN "2" ELSE "1"

\* auto-advance: the marker active after a placement
NextId(id) == IF id = "1" THEN "A" ELSE IF id = "A" THEN "2" ELSE id

\* the handler does not return early: if (!imageRef.current || !activeMarkerId)
\* return; imageRef.current is the <img> rendered while ImageShown
ClickAccepted == ImageShown /\ activeMarkerId # ""

HandleImageClick(e, rect) ==
    /\ ClickAccepted
    /\ LET x == e.clientX - rect.left
           y == e.clientY - rect.top
           normalizedX == Normalize(x, rect.width)
           normalizedY == Normalize(y, rect.height)
           prevPointKey == PrevPointKey(activeMarkerId)
       IN /\ markerCoords' =
                 PlaceMarker(markerCoords, activeMarkerId,
                             SnapPoint(normalizedX, normalizedY, e.shiftKey,
                                       activeMarkerId, markerCoords))
          /\ lastEvent' = [op |-> "click", clientX |-> e.clientX,
                           clientY |-> e.clientY, shiftKey |-> e.shiftKey,
                           rect |-> rect, marker |-> activeMarkerId,
                           prevPoint |-> IF prevPointKey = "null" THEN Null
                                         ELSE markerCoords[prevPointKey]]
    /\ activeMarkerId' = NextId(activeMarkerId)
    /\ placements' = IF placements = Interrupted \/ placements = MaxPlacements
                     THEN placements ELSE placements + 1
    /\ UNCHANGED <<status, resultImages, originalImage, error, uploads, gens,
                   render>>

SetManualMarker(id) ==
    /\ ImageShown
    /\ activeMarkerId' = id
    /\ lastEvent' = [op |-> "select", marker |-> id]
    /\ placements' = Interrupted
    /\ UNCHANGED <<status, resultImages, originalImage, error, markerCoords,
                   uploads, gens, render>>

-----------------------------------------------------------------------------
(* ImageGeneratorTool: upload, remove, reset                               *)

PendingUploads == uploads[1] + uploads[2]

\* processFile on something that is no image: rejected synchronously
ProcessFileNotImage ==
    /\ UploadAreaShown
    /\ error' = "imageOnly"
    /\ lastEvent' = [op |-> "upload", file |-> 0]
    /\ UNCHANGED placements
    /\ UNCHANGED <<status, resultImages, originalImage, markerCoords,
                   activeMarkerId, uploads, gens, render>>

\* processFile on an image: suspended in await fileToBase64(file)
ProcessFileStart(i) ==
    /\ UploadAreaShown
    /\ PendingUploads < MaxUploads
    /\ uploads' = [uploads EXCEPT ![i] = @ + 1]
    /\ lastEvent' = [op |-> "upload", file |-> i]
    /\ UNCHANGED placements
    /\ UNCHANGED <<status, resultImages, originalImage, error, markerCoords,
                   activeMarkerId, gens, render>>

\* the FileReader loaded the file: processFile resumes after the await
ProcessFileLoaded(i) ==
    /\ uploads[i] > 0
    /\ uploads' = [uploads EXCEPT ![i] = @ - 1]
    /\ originalImage' = i
    /\ resultImages' = <<>>
    /\ error' = NoError
    /\ markerCoords' = EmptyMarkers
    /\ activeMarkerId' = "1"
    /\ lastEvent' = [op |-> "loaded", file |-> i]
    /\ placements' = 0
    /\ UNCHANGED <<status, gens, render>>

\* the FileReader failed: the catch branch of processFile
ProcessFileFailed(i) ==
    /\ uploads[i] > 0
    /\ uploads' = [uploads EXCEPT ![i] = @ - 1]
    /\ error' = "loadFailed"
    /\ lastEvent' = [op |-> "loadFailed", file |-> i]
    /\ UNCHANGED placements
    /\ UNCHANGED <<status, resultImages, originalImage, markerCoords,
                   activeMarkerId, gens, render>>

HandleRemoveImage ==
    /\ ImageShown
    /\ originalImage' = NoImage
    /\ resultImages' = <<>>
    /\ status' = "IDLE"
    /\ markerCoords' = EmptyMarkers
    /\ lastEvent' = [op |-> "remove"]
    /\ placements' = Interrupted
    /\ UNCHANGED <<error, activeMarkerId, uploads, gens, render>>

HandleReset ==
    /\ InResultView
    /\ originalImage' = NoImage
    /\ resultImages' = <<>>
    /\ status' = "IDLE"
    /\ error' = NoError
    /\ markerCoords' = EmptyMarkers
    /\ activeMarkerId' = "1"
    /\ lastEvent' = [op |-> "reset"]
    /\ placements' = 0
    /\ UNCHANGED <<uploads, gens, render>>

-----------------------------------------------------------------------------
(* ImageGeneratorTool: generation                                          *)

\* HasManualMarkers with every in place of some
HasManualMarkers_Every(coords) == \A k \in Markers3 : coords[k] # Null

\* Object.values(markerCoords).some(v => v !== null)
HasManualMarkers(coords) == \E k \in Markers3 : coords[k] # Null

\* the button is enabled; the handler suspends in await checkAndRequestApiKey()
HandleGenerate ==
    /\ InInitialView
    /\ originalImage # NoImage
    /\ error' = NoError
    /\ status' = "LOADING"
    /\ resultImages' = <<>>
    /\ gens' = gens \cup {[img |-> originalImage, coords |-> markerCoords,
                           pc |-> "key"]}
    /\ lastEvent' = [op |-> "generate"]
    /\ UNCHANGED placements
    /\ UNCHANGED <<originalImage, markerCoords, activeMarkerId, uploads, render>>

\* checkAndRequestApiKey resolved: the manual render or the batch is started
GenerateKeyOk(g) ==
    /\ g \in gens /\ g.pc = "key"
    /\ gens' = (gens \ {g}) \cup {[g EXCEPT !.pc = "run"]}
    /\ lastEvent' = [op |-> "keyOk"]
    /\ UNCHANGED placements
    /\ UNCHANGED <<status, resultImages, originalImage, error, markerCoords,
                   activeMarkerId, uploads, render>>

\* checkAndRequestApiKey rejected: rethrown and caught
GenerateKeyFailed(g) ==
    /\ g \in gens /\ g.pc = "key"
    /\ gens' = gens \ {g}
    /\ status' = "ERROR"
    /\ error' = "keyRequired"
    /\ lastEvent' = [op |-> "keyFailed"]
    /\ UNCHANGED placements
    /\ UNCHANGED <<resultImages, originalImage, markerCoords, activeMarkerId,
                   uploads, render>>

\* the outputs of a generation that succeeds: one render of the manual
\* coordinates, or the batch of 3 detections
GenerateResults(g) ==
    IF HasManualMarkers(g.coords)
    THEN << [img |-> g.img, from |-> "manual"] >>
    ELSE [i \in 1..3 |-> [img |-> g.img, from |-> "detector"]]

GenerateDone(g) ==
    /\ g \in gens /\ g.pc = "run"
    /\ gens' = gens \ {g}
    /\ resultImages' = GenerateResults(g)
    /\ status' = "SUCCESS"
    /\ lastEvent' = [op |-> "generated"]
    /\ UNCHANGED placements
    /\ UNCHANGED <<originalImage, error, markerCoords, activeMarkerId,
                   uploads, render>>

\* the render or the batch rejected: the catch branch
GenerateFailed(g) ==
    /\ g \in gens /\ g.pc = "run"
    /\ gens' = gens \ {g}
    /\ status' = "ERROR"
    /\ error' \in {"keyInvalid", "generateFailed"}
    /\ lastEvent' = [op |-> "generateFailed"]
    /\ UNCHANGED placements
    /\ UNCHANGED <<resultImages, originalImage, markerCoords, activeMarkerId,
                   uploads, render>>

-----------------------------------------------------------------------------
(* drawWiringOnCanvas: inputs                                              *)

\* the markers of the 4-point variant, in declaration order
MarkerKeys4 == <<"1", "2", "3", "4">>
Markers4 == {"1", "2", "3", "4"}

KeysOf(variant) == IF variant = "3-point" THEN Markers3 ELSE Markers4

\* normalized positions given to the renderer; the last lies outside [0,1000]
RenderPositions == {[x |-> NumInt(0), y |-> NumInt(0)],
                    [x |-> NumInt(1000), y |-> NumInt(1000)],
                    [x |-> NumInt(1200), y |-> NumInt(-50)]}

\* an entry of a MarkerCoordinates object: a position, null, or no entry
CoordValues == RenderPositions \cup {Null, Undefined}

LineStyles == {"red-solid", "blue-dotted"}

\* the decoded base images (img.width, img.height)
ImageSizes == {[width |-> 100, height |-> 50], [width |-> 640, height |-> 480]}

-----------------------------------------------------------------------------
(* drawWiringOnCanvas: the 2D context and the draw log                     *)

\* a fresh CanvasRenderingContext2D
NewContext == [strokeStyle |-> "#000000", fillStyle |-> "#000000",
               lineDash |-> <<>>, lineWidth |-> NumInt(1), lineCap |-> "butt",
               font |-> [bold |-> FALSE, px |-> NumInt(10)],
               textAlign |-> "start", textBaseline |-> "alphabetic"]

\* a canvas: the context state and the painting calls made so far
NewCanvas == [ctx |-> NewContext, ops |-> <<>>]

\* ctx.drawImage(img, 0, 0)
DrawImage(cv, img) ==
    [cv EXCEPT !.ops = Append(@, [op |-> "drawImage", img |-> img])]

\* ctx.stroke() of the current path; step names the statement of the source
Stroke(cv, path, step) ==
    [cv EXCEPT !.ops = Append(@, [op |-> "stroke", step |-> step, path |-> path,
                                  strokeStyle |-> cv.ctx.strokeStyle,
                                  lineDash |-> cv.ctx.lineDash,
                                  lineWidth |-> cv.ctx.lineWidth,
                                  lineCap |-> cv.ctx.lineCap])]

\* ctx.fill() of the current path
Fill(cv, path, step) ==
    [cv EXCEPT !.ops = Append(@, [op |-> "fill", step |-> step, path |-> path,
                                  fillStyle |-> cv.ctx.fillStyle])]

\* ctx.fillText(text, x, y)
FillText(cv, text, x, y, step) ==
    [cv EXCEPT !.ops = Append(@, [op |-> "fillText", step |-> step,
                                  text |-> text, x |-> x, y |-> y,
                                  fillStyle |-> cv.ctx.fillStyle,
                                  font |-> cv.ctx.font,
                                  textAlign |-> cv.ctx.textAlign,
                                  textBaseline |-> cv.ctx.textBaseline])]

\* beginPath(); moveTo(a); lineTo(b)
LinePath(a, b) == [kind |-> "line", from |-> a, to |-> b]

\* beginPath(); arc(c.x, c.y, r, 0, 2*PI)
ArcPath(c, r) == [kind |-> "arc", center |-> c, radius |-> r]

-----------------------------------------------------------------------------
(* drawWiringOnCanvas: coordinates                                         *)

\* GetPt with the normalized coordinates clamped to [0, 1000] first
GetPt_Clamped(coords, key, img) ==
    LET c == coords[key]
        clamp(v) == IF NumLess(v, NumInt(0)) THEN NumInt(0)
                    ELSE IF NumLess(NumInt(1000), v) THEN NumInt(1000) ELSE v
    IN IF Falsy(c) THEN Null
       ELSE [x |-> NumMul(NumDiv(clamp(c.x), NumInt(1000)), NumInt(img.width)),
             y |-> NumMul(NumDiv(clamp(c.y), NumInt(1000)), NumInt(img.height))]

\* getPt: normalized 0-1000 coordinates to pixel coordinates, null if absent
GetPt(coords, key, img) ==
    LET c == coords[key]
    IN IF Falsy(c) THEN Null
       ELSE [x |-> NumMul(NumDiv(c.x, NumInt(1000)), NumInt(img.width)),
             y |-> NumMul(NumDiv(c.y, NumInt(1000)), NumInt(img.height))]

-----------------------------------------------------------------------------
(* drawWiringOnCanvas: 3-point variant (src/services/geminiService.ts)     *)

\* Math.max(1, img.width * 0.005)
BaseLineWidth(img) == NumMax(NumInt(1), NumMul(NumInt(img.width), Num(5, 1000)))

\* SetContextStyle that leaves the dash pattern alone for a solid line
SetContextStyle_NoDashReset(cv, style, img) ==
    LET dashSize == NumMax(NumInt(2), NumMul(NumInt(img.width), Num(12, 1000)))
    IN [cv EXCEPT !.ctx.strokeStyle = IF style = "red-solid"
                                      THEN "rgb(220, 38, 38)"
                                      ELSE "rgb(37, 99, 235)",
                  !.ctx.lineDash = IF style = "red-solid" THEN @
                                   ELSE <<dashSize, dashSize>>,
                  !.ctx.lineWidth = BaseLineWidth(img),
                  !.ctx.lineCap = "round"]

\* setContextStyle(style)
SetContextStyle(cv, style, img) ==
    LET dashSize == NumMax(NumInt(2), NumMul(NumInt(img.width), Num(12, 1000)))
    IN [cv EXCEPT !.ctx.strokeStyle = IF style = "red-solid"
                                      THEN "rgb(220, 38, 38)"
                                      ELSE "rgb(37, 99, 235)",
                  !.ctx.lineDash = IF style = "red-solid" THEN <<>>
                                   ELSE <<dashSize, dashSize>>,
                  !.ctx.lineWidth = BaseLineWidth(img),
                  !.ctx.lineCap = "round"]

\* one "if (a && b) { ...; setContextStyle(style); ctx.stroke(); }" block
DrawSegment3(cv, a, b, style, img, step) ==
    IF ~Falsy(a) /\ ~Falsy(b)
    THEN Stroke(SetContextStyle(cv, style, img), LinePath(a, b), step)
    ELSE cv

\* DrawSegments3 with the A-2 block nested inside the 1-A block
DrawSegments3_Nested(cv, coords, styles, img) ==
    LET p1 == GetPt(coords, "1", img)
        pA == GetPt(coords, "A", img)
        p2 == GetPt(coords, "2", img)
    IN IF ~Falsy(p1) /\ ~Falsy(pA)
       THEN DrawSegment3(DrawSegment3(cv, p1, pA, styles.segment1A, img, "1-A"),
                         pA, p2, styles.segmentA2, img, "A-2")
       ELSE cv

\* 2. Draw 1-A, 3. Draw A-2
DrawSegments3(cv, coords, styles, img) ==
    LET p1 == GetPt(coords, "1", img)
        pA == GetPt(coords, "A", img)
        p2 == GetPt(coords, "2", img)
        cv1 == DrawSegment3(cv, p1, pA, styles.segment1A, img, "1-A")
    IN DrawSegment3(cv1, pA, p2, styles.segmentA2, img, "A-2")

\* Math.max(2, img.width * 0.015)
Radius(img) == NumMax(NumInt(2), NumMul(NumInt(img.width), Num(15, 1000)))

FontSize(img) == NumMul(Radius(img), Num(11, 10))

\* the body of markerKeys.forEach for one key
DrawMarker(cv, coords, key, img) ==
    LET pt == GetPt(coords, key, img)
        radius == Radius(img)
        fontSize == FontSize(img)
        arc == ArcPath(pt, radius)
        step == key
        c1 == Fill([cv EXCEPT !.ctx.fillStyle = "#FACC15"], arc, step)
        c2 == Stroke([c1 EXCEPT !.ctx.lineWidth =
                                    NumMax(Num(1, 2), NumMul(radius, Num(2, 10))),
                                !.ctx.strokeStyle = "#CA8A04",
                                !.ctx.lineDash = <<>>], arc, step)
        c3 == [c2 EXCEPT !.ctx.fillStyle = "#000000",
                         !.ctx.font = [bold |-> TRUE, px |-> fontSize],
                         !.ctx.textAlign = "center",
                         !.ctx.textBaseline = "middle"]
    IN IF Falsy(pt) THEN cv
       ELSE FillText(c3, key, pt.x,
                     NumAdd(pt.y, NumMul(fontSize, Num(8, 100))), step)

\* DrawMarkersFrom as a loop that stops at the first absent marker
RECURSIVE DrawMarkersFrom_Break(_, _, _, _)
DrawMarkersFrom_Break(cv, coords, i, img) ==
    IF i > Len(MarkerKeys3) \/ Falsy(coords[MarkerKeys3[i]]) THEN cv
    ELSE DrawMarkersFrom_Break(DrawMarker(cv, coords, MarkerKeys3[i], img),
                               coords, i + 1, img)

\* markerKeys.forEach(key => ...) from the i-th key on
RECURSIVE DrawMarkersFrom(_, _, _, _)
DrawMarkersFrom(cv, coords, i, img) ==
    IF i > Len(MarkerKeys3) THEN cv
    ELSE DrawMarkersFrom(DrawMarker(cv, coords, MarkerKeys3[i], img),
                         coords, i + 1, img)

\* Draw3 with the markers drawn before the lines
Draw3_MarkersFirst(coords, styles, img) ==
    DrawSegments3(DrawMarkersFrom(DrawImage(NewCanvas, img), coords, 1, img),
                  coords, styles, img)

\* the drawing part of img.onload on the canvas cv, 3-point variant
Draw3On(cv, coords, styles, img) ==
    DrawMarkersFrom(DrawSegments3(DrawImage(cv, img), coords, styles, img),
                    coords, 1, img)

\* the drawing part of img.onload on a canvas just created
Draw3(coords, styles, img) == Draw3On(NewCanvas, coords, styles, img)

-----------------------------------------------------------------------------
(* drawWiringOnCanvas: 4-point variant (src/unnamed/part_001)              *)

\* 2. Draw 1-2 Red Solid Line
DrawRedLine4(cv, a, b, img) ==
    IF ~Falsy(a) /\ ~Falsy(b)
    THEN Stroke([cv EXCEPT !.ctx.strokeStyle = "rgb(255, 0, 0)",
                           !.ctx.lineWidth =
                               NumMax(NumInt(3),
                                      NumMul(NumInt(img.width), Num(5, 1000))),
                           !.ctx.lineDash = <<>>,
                           !.ctx.lineCap = "round"],
                LinePath(a, b), "1-2")
    ELSE cv

\* 3. Draw 3-4 Blue Dotted Line
DrawBlueLine4(cv, a, b, img) ==
    LET dashSize == NumMax(NumInt(5), NumMul(NumInt(img.width), Num(1, 100)))
    IN IF ~Falsy(a) /\ ~Falsy(b)
       THEN Stroke([cv EXCEPT !.ctx.strokeStyle = "rgb(0, 0, 255)",
                              !.ctx.lineWidth =
                                  NumMax(NumInt(3),
                                         NumMul(NumInt(img.width), Num(5, 1000))),
                              !.ctx.lineDash = <<dashSize, dashSize>>,
                              !.ctx.lineCap = "round"],
                   LinePath(a, b), "3-4")
       ELSE cv

\* the drawing part of img.onload, 4-point variant
Draw4(coords, img) ==
    LET p1 == GetPt(coords, "1", img)
        p2 == GetPt(coords, "2", img)
        p3 == GetPt(coords, "3", img)
        p4 == GetPt(coords, "4", img)
    IN DrawBlueLine4(DrawRedLine4(DrawImage(NewCanvas, img), p1, p2, img),
                     p3, p4, img)

-----------------------------------------------------------------------------
(* drawWiringOnCanvas: the promise                                         *)

\* the calls of drawWiringOnCanvas: img.src has been set, the promise pends
RenderCalls ==
    {[state |-> "pending", variant |-> "3-point", coords |-> c, styles |-> s,
      img |-> i, decodes |-> d, hasContext |-> h, ops |-> <<>>,
      result |-> "none"] :
        c \in [Markers3 -> CoordValues],
        s \in [segment1A : LineStyles, segmentA2 : LineStyles],
        i \in ImageSizes,
        d \in BOOLEAN, h \in BOOLEAN}
    \cup
    {[state |-> "pending", variant |-> "4-point", coords |-> c,
      styles |-> [segment1A |-> "red-solid", segmentA2 |-> "blue-dotted"],
      img |-> i, decodes |-> d, hasContext |-> h, ops |-> <<>>,
      result |-> "none"] :
        c \in [Markers4 -> CoordValues],
        i \in ImageSizes,
        d \in BOOLEAN, h \in BOOLEAN}

\* the painting calls img.onload makes on its canvas
DrawOps(r) ==
    IF r.variant = "3-point"
    THEN Draw3(r.coords, r.styles, r.img).ops
    ELSE Draw4(r.coords, r.img).ops

\* ImgOnload falling back to the undrawn image when there is no 2D context
ImgOnload_Fallback ==
    /\ render.state = "pending"
    /\ render.decodes
    /\ render' = IF ~render.hasContext
                 THEN [render EXCEPT !.state = "resolved",
                                     !.result = "dataURL"]
                 ELSE [render EXCEPT !.state = "resolved",
                                     !.ops = DrawOps(render),
                                     !.result = "dataURL"]
    /\ UNCHANGED uiVars

\* img.onload: the image decoded
ImgOnload ==
    /\ render.state = "pending"
    /\ render.decodes
    /\ render' = IF ~render.hasContext
                 THEN [render EXCEPT !.state = "rejected",
                                     !.result = "Could not get canvas context"]
                 ELSE [render EXCEPT !.state = "resolved",
                                     !.ops = DrawOps(render),
                                     !.result = "dataURL"]
    /\ UNCHANGED uiVars

\* img.onerror: the image did not decode
ImgOnerror ==
    /\ render.state = "pending"
    /\ ~render.decodes
    /\ render' = [render EXCEPT !.state = "rejected", !.result = "error event"]
    /\ UNCHANGED uiVars

-----------------------------------------------------------------------------
(* The tool                                                                *)

NoRender == [state |-> "none"]

Init ==
    /\ status = "IDLE"
    /\ resultImages = <<>>
    /\ originalImage = NoImage
    /\ error = NoError
    /\ markerCoords = EmptyMarkers
    /\ activeMarkerId = "1"
    /\ uploads = [i \in ImageIds |-> 0]
    /\ gens = {}
    /\ lastEvent = NoEvent
    /\ placements = 0
    /\ render = NoRender

Next ==
    \/ \E e \in [clientX : {p.clientX : p \in Pointers},
                 clientY : {p.clientY : p \in Pointers},
                 shiftKey : BOOLEAN], rect \in Rects :
          /\ [clientX |-> e.clientX, clientY |-> e.clientY] \in Pointers
          /\ HandleImageClick(e, rect)
    \/ \E id \in Markers3 : SetManualMarker(id)
    \/ ProcessFileNotImage
    \/ \E i \in ImageIds : ProcessFileStart(i)
    \/ \E i \in ImageIds : ProcessFileLoaded(i)
    \/ \E i \in ImageIds : ProcessFileFailed(i)
    \/ HandleRemoveImage
    \/ HandleReset
    \/ HandleGenerate
    \/ \E g \in gens : GenerateKeyOk(g)
    \/ \E g \in gens : GenerateKeyFailed(g)
    \/ \E g \in gens : GenerateDone(g)
    \/ \E g \in gens : GenerateFailed(g)

Spec == Init /\ [][Next]_vars

-----------------------------------------------------------------------------
(* One call of drawWiringOnCanvas on every input                           *)

InitRender ==
    /\ status = "IDLE"
    /\ resultImages = <<>>
    /\ originalImage = NoImage
    /\ error = NoError
    /\ markerCoords = EmptyMarkers
    /\ activeMarkerId = "1"
    /\ uploads = [i \in ImageIds |-> 0]
    /\ gens = {}
    /\ lastEvent = NoEvent
    /\ placements = 0
    /\ render \in RenderCalls

NextRender == ImgOnload \/ ImgOnerror

SpecRender == InitRender /\ [][NextRender]_vars

-----------------------------------------------------------------------------
(* detectMarkerCoordinates                                                 *)

\* the marker maps the detector answers with
DetectedMaps ==
    {[k \in Markers3 |->
         CASE k = "1" -> [x |-> NumInt(0), y |-> NumInt(0)]
           [] k = "A" -> [x |-> NumInt(1000), y |-> NumInt(1000)]
           [] k = "2" -> [x |-> NumInt(1200), y |-> NumInt(-50)]],
     [k \in Markers3 |->
         CASE k = "1" -> [x |-> NumInt(1000), y |-> NumInt(1000)]
           [] k = "A" -> Null
           [] k = "2" -> [x |-> NumInt(0), y |-> NumInt(0)]]}

\* the values the text of a response parses to: a marker map, or null
\* (the text "null")
JsonValues == DetectedMaps \cup {Null}

\* response.text: empty, not JSON, or the JSON text of a value
Texts == {[chars |-> "empty"], [chars |-> "notJSON"]}
         \cup {[chars |-> "JSON", value |-> v] : v \in JsonValues}

\* messages of the errors ai.models.generateContent rejects with
UpstreamErrors == {"Entity was not found", "fetch failed"}

\* what await ai.models.generateContent(...) gives
Responses == {[kind |-> "error", message |-> m] : m \in UpstreamErrors}
             \cup {[kind |-> "response", text |-> t] : t \in Texts}

\* JSON.parse(text): the value, or a SyntaxError
JsonParse(text) ==
    IF text.chars = "JSON" THEN [ok |-> TRUE, value |-> text.value]
    ELSE [ok |-> FALSE, error |-> "SyntaxError"]

\* the outcome of detectMarkerCoordinates on a response of generateContent
DetectMarkerCoordinates(response) ==
    IF response.kind = "error"
    THEN [ok |-> FALSE, error |-> response.message]
    ELSE IF response.text.chars = "empty"
    THEN [ok |-> FALSE, error |-> "No response from AI"]
    ELSE IF JsonParse(response.text).ok
    THEN [ok |-> TRUE, value |-> JsonParse(response.text).value]
    ELSE [ok |-> FALSE, error |-> "AI returned invalid JSON"]

-----------------------------------------------------------------------------
(* handleGenerate in detail: the manual render and the batch, task by task *)

\* a generation is started while at most this many tasks of batches that
\* rejected are still running
MaxOrphans == 0

\* the decoded <img> of an uploaded file
ImageOf(i) == IF i = 1 THEN [src |-> i, width |-> 100, height |-> 50]
              ELSE [src |-> i, width |-> 640, height |-> 480]

\* the default value of the styles parameter
DefaultStyles == [segment1A |-> "red-solid", segmentA2 |-> "blue-dotted"]

\* one promise of the generation: the async callback of the batch suspended
\* in await detectMarkerCoordinates(...)
DetectTask == [stage |-> "detect", coords |-> Undefined, canvas |-> Undefined,
               out |-> Undefined, error |-> NoError]

\* one promise of the generation: drawWiringOnCanvas(..., coords, ...) waiting
\* for its image to load
RenderTask(coords) == [DetectTask EXCEPT !.stage = "render", !.coords = coords]

\* generateManualWiringDiagram: one render of the given coordinates
GenerateManualWiringDiagram(g) ==
    [img |-> g.img, coords |-> g.coords, pc |-> "run", mode |-> "manual",
     calls |-> 0, tasks |-> << RenderTask(g.coords) >>,
     order |-> <<>>, settled |-> "pending"]

\* generateWiringDiagramsBatch: count callbacks, each of which has called the
\* detector and is suspended
GenerateWiringDiagramsBatch(g, count) ==
    [img |-> g.img, coords |-> g.coords, pc |-> "run", mode |-> "batch",
     calls |-> count, tasks |-> [i \in 1..count |-> DetectTask],
     order |-> <<>>, settled |-> "pending"]

\* the canvases of the page that renders have painted
Canvases ==
    UNION {{g.tasks[i].canvas : i \in DOMAIN g.tasks} :
               g \in {h \in gens : h.pc = "run"}} \ {Undefined}

\* document.createElement('canvas') reusing a canvas of the page
CreateCanvas_Reused(existing) ==
    IF existing = {} THEN NewCanvas ELSE CHOOSE c \in existing : TRUE

\* document.createElement('canvas'): a new element, whatever the page holds
CreateCanvas(existing) == NewCanvas

\* canvas.toDataURL(mimeType): the raster the painting calls produced
ToDataURL(cv) == [ops |-> cv.ops]

\* the async callback of the batch resumes with the outcome of the detector:
\* it calls drawWiringOnCanvas, or its promise rejects
AfterDetect(t, outcome) ==
    IF outcome.ok THEN RenderTask(outcome.value)
    ELSE [t EXCEPT !.stage = "rejected", !.error = outcome.error]

\* OnloadTask that yields after the lines and paints the markers when it is
\* resumed
OnloadTask_Suspending(t, img, hasContext, existing) ==
    IF ~hasContext
    THEN [t EXCEPT !.stage = "rejected",
                   !.error = "Could not get canvas context"]
    ELSE IF t.coords = Null
    THEN [t EXCEPT !.stage = "hung",
                   !.canvas = DrawImage(CreateCanvas(existing), img)]
    ELSE IF t.canvas = Undefined
    THEN [t EXCEPT !.canvas = DrawSegments3(DrawImage(CreateCanvas(existing), img),
                                            t.coords, DefaultStyles, img)]
    ELSE LET cv == DrawMarkersFrom(t.canvas, t.coords, 1, img)
         IN [t EXCEPT !.stage = "resolved", !.canvas = cv,
                      !.out = ToDataURL(cv)]

\* img.onload of drawWiringOnCanvas; coords[key] of null throws in the
\* handler after ctx.drawImage, which leaves the promise pending for ever
OnloadTask(t, img, hasContext, existing) ==
    IF ~hasContext
    THEN [t EXCEPT !.stage = "rejected",
                   !.error = "Could not get canvas context"]
    ELSE IF t.coords = Null
    THEN [t EXCEPT !.stage = "hung",
                   !.canvas = DrawImage(CreateCanvas(existing), img)]
    ELSE LET cv == Draw3On(CreateCanvas(existing), t.coords, DefaultStyles, img)
         IN [t EXCEPT !.stage = "resolved", !.canvas = cv,
                      !.out = ToDataURL(cv)]

\* img.onerror = reject: the promise rejects with the error event
OnerrorTask(t) == [t EXCEPT !.stage = "rejected", !.error = "error event"]

\* a detector call that failed is issued again
DetectRejected_Retry(g, i, err) == [g EXCEPT !.calls = @ + 1]

\* the detector call of task i failed: the promise of the task rejects
DetectRejected(g, i, err) ==
    [g EXCEPT !.tasks[i] = AfterDetect(@, [ok |-> FALSE, error |-> err]),
              !.order = Append(@, i)]

\* the results collected in the order in which the tasks completed
PromiseAll_CompletionOrder(tasks, order) ==
    [k \in 1..Len(order) |-> tasks[order[k]].out]

\* Promise.all(promises) fulfilled: the values in the order of the promises
PromiseAll(tasks, order) == [i \in 1..Len(tasks) |-> tasks[i].out]

\* the results handleGenerate passes to setResultImages
Results(g) ==
    IF g.mode = "manual" THEN << g.tasks[1].out >>
    ELSE PromiseAll(g.tasks, g.order)

\* err.message of the catch branch, as the error state shows it
ErrorText(err) ==
    IF err = "Entity was not found" THEN "keyInvalid"
    ELSE IF err = "error event" THEN "generateFailed"
    ELSE err

AllResolved(g) == \A i \in DOMAIN g.tasks : g.tasks[i].stage = "resolved"

\* a settled promise nobody holds a reference to: its value is dropped
Discarded == [DetectTask EXCEPT !.stage = "discarded"]

\* the tasks of a batch that rejected: Promise.all has settled, no code reads
\* the values and errors of its promises any more
Orphaned(g) ==
    [g EXCEPT !.tasks = [i \in DOMAIN g.tasks |->
                            IF g.tasks[i].stage \in {"resolved", "rejected"}
                            THEN Discarded ELSE g.tasks[i]],
              !.order = <<>>]

\* no task of g will run again
Finished(g) ==
    \A i \in DOMAIN g.tasks : g.tasks[i].stage \in {"discarded", "hung"}

\* a generation that rejected is followed until its tasks have finished
Followed(g) == IF Finished(g) THEN {} ELSE {g}

\* the number of tasks of g that resolved
NumResolved(g) ==
    Cardinality({i \in DOMAIN g.tasks : g.tasks[i].stage = "resolved"})

\* TaskSettled with Promise.allSettled: the batch waits for every task and
\* shows the outputs of those that resolved
TaskSettled_AllSettled(g, g2, i) ==
    IF \A k \in DOMAIN g2.tasks : g2.tasks[k].stage \in {"resolved", "rejected"}
    THEN /\ gens' = gens \ {g}
         /\ resultImages' = SelectSeq(PromiseAll(g2.tasks, g2.order),
                                      LAMBDA o : o # Undefined)
         /\ status' = "SUCCESS"
         /\ lastEvent' = [op |-> "generated", gen |-> g2]
         /\ UNCHANGED error
    ELSE /\ gens' = (gens \ {g}) \cup {g2}
         /\ lastEvent' = [op |-> "taskSettled"]
         /\ UNCHANGED <<status, resultImages, error>>

\* TaskSettled with every output shown as soon as its task resolves, also
\* after the batch rejected
TaskSettled_Late(g, g2, i) ==
    IF g.settled = "pending" /\ g2.tasks[i].stage = "rejected"
    THEN LET g3 == [g2 EXCEPT !.settled = "rejected"]
             err == g2.tasks[i].error
         IN /\ gens' = (gens \ {g}) \cup Followed(Orphaned(g3))
            /\ status' = "ERROR"
            /\ error' = ErrorText(err)
            /\ lastEvent' = [op |-> "generateFailed", error |-> err,
                             resolved |-> NumResolved(g3)]
            /\ UNCHANGED resultImages
    ELSE IF g.settled = "pending" /\ AllResolved(g2)
    THEN /\ gens' = gens \ {g}
         /\ resultImages' = Results(g2)
         /\ status' = "SUCCESS"
         /\ lastEvent' = [op |-> "generated", gen |-> g2]
         /\ UNCHANGED error
    ELSE IF g.settled = "rejected" /\ g2.tasks[i].stage = "resolved"
    THEN /\ gens' = (gens \ {g}) \cup Followed(Orphaned(g2))
         /\ resultImages' = Append(resultImages, g2.tasks[i].out)
         /\ status' = "SUCCESS"
         /\ lastEvent' = [op |-> "taskSettled"]
         /\ UNCHANGED error
    ELSE /\ gens' = (gens \ {g}) \cup
                    (IF g.settled = "pending" THEN {g2}
                     ELSE Followed(Orphaned(g2)))
         /\ lastEvent' = [op |-> "taskSettled"]
         /\ UNCHANGED <<status, resultImages, error>>

\* task i of g completed, giving g2: Promise.all and the continuation of
\* handleGenerate run before any other handler
TaskSettled(g, g2, i) ==
    IF g.settled = "pending" /\ g2.tasks[i].stage = "rejected"
    THEN LET g3 == [g2 EXCEPT !.settled = "rejected"]
             err == g2.tasks[i].error
         IN /\ gens' = (gens \ {g}) \cup Followed(Orphaned(g3))
            /\ status' = "ERROR"
            /\ error' = ErrorText(err)
            /\ lastEvent' = [op |-> "generateFailed", error |-> err,
                             resolved |-> NumResolved(g3)]
            /\ UNCHANGED resultImages
    ELSE IF g.settled = "pending" /\ AllResolved(g2)
    THEN /\ gens' = gens \ {g}
         /\ resultImages' = Results(g2)
         /\ status' = "SUCCESS"
         /\ lastEvent' = [op |-> "generated", gen |-> g2]
         /\ UNCHANGED error
    ELSE /\ gens' = (gens \ {g}) \cup
                    (IF g.settled = "pending" THEN {g2}
                     ELSE Followed(Orphaned(g2)))
         /\ lastEvent' = [op |-> "taskSettled"]
         /\ UNCHANGED <<status, resultImages, error>>

\* checkAndRequestApiKey resolved: handleGenerate starts the manual render
\* or the batch of 3 and suspends
GenerateStartTasks(g) ==
    /\ g \in gens /\ g.pc = "key"
    /\ gens' = (gens \ {g}) \cup
               {IF HasManualMarkers(g.coords)
                THEN GenerateManualWiringDiagram(g)
                ELSE GenerateWiringDiagramsBatch(g, 3)}
    /\ lastEvent' = [op |-> "keyOk"]
    /\ UNCHANGED placements
    /\ UNCHANGED <<status, resultImages, originalImage, error, markerCoords,
                   activeMarkerId, uploads, render>>

\* generateContent of task i settled with the given response
DetectSettles(g, i, response) ==
    /\ g \in gens /\ g.pc = "run"
    /\ i \in DOMAIN g.tasks /\ g.tasks[i].stage = "detect"
    /\ LET outcome == DetectMarkerCoordinates(response)
       IN IF outcome.ok
          THEN /\ gens' = (gens \ {g}) \cup
                          {[g EXCEPT !.tasks[i] = AfterDetect(@, outcome)]}
               /\ lastEvent' = [op |-> "detected"]
               /\ UNCHANGED <<status, resultImages, error>>
          ELSE TaskSettled(g, DetectRejected(g, i, outcome.error), i)
    /\ UNCHANGED placements
    /\ UNCHANGED <<originalImage, markerCoords, activeMarkerId, uploads, render>>

\* the image of the render of task i loaded
TaskImgOnload(g, i, hasContext) ==
    /\ g \in gens /\ g.pc = "run"
    /\ i \in DOMAIN g.tasks /\ g.tasks[i].stage = "render"
    /\ LET t == OnloadTask(g.tasks[i], ImageOf(g.img), hasContext, Canvases)
       IN TaskSettled(g, [g EXCEPT !.tasks[i] = t,
                                   !.order = IF t.stage = "hung" THEN @
                                             ELSE Append(@, i)], i)
    /\ UNCHANGED placements
    /\ UNCHANGED <<originalImage, markerCoords, activeMarkerId, uploads, render>>

\* the image of the render of task i did not load
TaskImgOnerror(g, i) ==
    /\ g \in gens /\ g.pc = "run"
    /\ i \in DOMAIN g.tasks /\ g.tasks[i].stage = "render"
    /\ TaskSettled(g, [g EXCEPT !.tasks[i] = OnerrorTask(@),
                                !.order = Append(@, i)], i)
    /\ UNCHANGED placements
    /\ UNCHANGED <<originalImage, markerCoords, activeMarkerId, uploads, render>>

\* the tasks of batches that rejected which are still running
LiveOrphans ==
    {p \in gens \X (1..3) :
        /\ p[1].pc = "run" /\ p[1].settled = "rejected"
        /\ p[2] \in DOMAIN p[1].tasks
        /\ p[1].tasks[p[2]].stage \in {"detect", "render"}}

\* the click that places the markers before a generation
GenerateClick == [clientX |-> 160, clientY |-> 320, shiftKey |-> FALSE]

\* the tool after the upload of image 1 (ProcessFileLoaded(1))
InitGenerate ==
    /\ status = "IDLE"
    /\ resultImages = <<>>
    /\ originalImage = 1
    /\ error = NoError
    /\ markerCoords = EmptyMarkers
    /\ activeMarkerId = "1"
    /\ uploads = [i \in ImageIds |-> 0]
    /\ gens = {}
    /\ lastEvent = [op |-> "loaded", file |-> 1]
    /\ placements = 0
    /\ render = NoRender

NextGenerate ==
    \/ \E rect \in Rects : HandleImageClick(GenerateClick, rect)
    \/ Cardinality(LiveOrphans) <= MaxOrphans /\ HandleGenerate
    \/ \E g \in gens : GenerateKeyFailed(g)
    \/ \E g \in gens : GenerateStartTasks(g)
    \/ \E g \in gens, i \in 1..3, r \in Responses : DetectSettles(g, i, r)
    \/ \E g \in gens, i \in 1..3, h \in BOOLEAN : TaskImgOnload(g, i, h)
    \/ \E g \in gens, i \in 1..3 : TaskImgOnerror(g, i)

SpecGenerate == InitGenerate /\ [][NextGenerate]_vars
-----------------------------------------------------------------------------
(* Properties of drawWiringOnCanvas (checked under SpecRender)             *)

\* a MarkerMap entry that holds a position
Present(v) == DOMAIN v = {"x", "y"}

\* the declared segments of a variant, in declared order
DeclaredSegments(variant) ==
    IF variant = "3-point"
    THEN << [a |-> "1", b |-> "A", step |-> "1-A"],
            [a |-> "A", b |-> "2", step |-> "A-2"] >>
    ELSE << [a |-> "1", b |-> "2", step |-> "1-2"],
            [a |-> "3", b |-> "4", step |-> "3-4"] >>

IsLineStroke(o) == o.op = "stroke" /\ o.path.kind = "line"

\* a call of the canvas that paints part of a marker glyph
IsGlyphOp(o) == \/ o.op \in {"fill", "stroke"} /\ o.path.kind = "arc"
                \/ o.op = "fillText"

\* the indices of the draw log at which segment seg was stroked
SegmentStrokes(seg) ==
    {i \in DOMAIN render.ops : IsLineStroke(render.ops[i])
                               /\ render.ops[i].step = seg.step}

\* the indices of the draw log at which a part of marker k's glyph was painted
GlyphOps(k, op) ==
    {i \in DOMAIN render.ops : /\ IsGlyphOp(render.ops[i])
                               /\ render.ops[i].op = op
                               /\ render.ops[i].step = k}

\* a render fails only on a decode failure or a missing 2D context
RejectedOnlyWithoutImageOrContext ==
    /\ render.state = "rejected" => ~render.decodes \/ ~render.hasContext
    /\ render.state = "resolved" => render.decodes /\ render.hasContext

\* C1: each declared segment (3-point: 1-A, A-2; 4-point: 1-2, 3-4) is
\* stroked, once and between the pixels of its two markers, iff both of its
\* endpoint markers are present; an absent endpoint raises no error and does
\* not decide whether the other segment is drawn.
C1_SegmentIffBothEndpoints ==
    /\ RejectedOnlyWithoutImageOrContext
    /\ render.state = "resolved" =>
         LET segs == DeclaredSegments(render.variant)
         IN /\ \A n \in DOMAIN segs :
                 LET seg == segs[n]
                     both == Present(render.coords[seg.a])
                             /\ Present(render.coords[seg.b])
                 IN /\ both => /\ Cardinality(SegmentStrokes(seg)) = 1
                               /\ \A i \in SegmentStrokes(seg) :
                                    render.ops[i].path =
                                      LinePath(GetPt(render.coords, seg.a, render.img),
                                               GetPt(render.coords, seg.b, render.img))
                    /\ ~both => SegmentStrokes(seg) = {}
            /\ \A i \in DOMAIN render.ops :
                 IsLineStroke(render.ops[i]) =>
                   \E n \in DOMAIN segs : render.ops[i].step = segs[n].step

\* C1 witness: a 3-point render that stroked 1-A and skipped A-2 because
\* marker 2 has no entry
C1_Witness ==
    /\ render.state = "resolved"
    /\ render.variant = "3-point"
    /\ Present(render.coords["1"]) /\ Present(render.coords["A"])
    /\ render.coords["2"] = Undefined
    /\ SegmentStrokes(DeclaredSegments("3-point")[1]) # {}
    /\ SegmentStrokes(DeclaredSegments("3-point")[2]) = {}

\* exactly the present markers of the 3-point variant have a glyph: one
\* filled circle, one border and one label each
GlyphsOfPresentMarkers3 ==
    \A k \in Markers3 :
      LET n == IF Present(render.coords[k]) THEN 1 ELSE 0
      IN /\ Cardinality(GlyphOps(k, "fill")) = n
         /\ Cardinality(GlyphOps(k, "stroke")) = n
         /\ Cardinality(GlyphOps(k, "fillText")) = n
         /\ \A i \in GlyphOps(k, "fillText") : render.ops[i].text = k

KeyRank(k) == CHOOSE n \in DOMAIN MarkerKeys3 : MarkerKeys3[n] = k

\* the position of a segment's step in the declared order of the variant
StepRank(variant, step) ==
    CHOOSE n \in DOMAIN DeclaredSegments(variant) :
        DeclaredSegments(variant)[n].step = step

\* C3: the draw log of one render is the base image first (and only once),
\* then the segments in declared order, then the marker glyphs in the order
\* 1, A, 2; no segment is stroked after any part of a marker glyph.
C3_DrawOrder ==
    render.state = "resolved" =>
      LET ops == render.ops
      IN /\ Len(ops) >= 1
         /\ \A i \in DOMAIN ops : ops[i].op = "drawImage" <=> i = 1
         /\ \A i, j \in DOMAIN ops :
              i < j =>
                /\ ~(IsGlyphOp(ops[i]) /\ IsLineStroke(ops[j]))
                /\ IsLineStroke(ops[i]) /\ IsLineStroke(ops[j]) =>
                     StepRank(render.variant, ops[i].step)
                       < StepRank(render.variant, ops[j].step)
                /\ IsGlyphOp(ops[i]) /\ IsGlyphOp(ops[j]) =>
                     KeyRank(ops[i].step) <= KeyRank(ops[j].step)

\* C3 witness: a 3-point render of a complete map that stroked both
\* segments and drew the three glyphs (2 + 3 * 3 calls after the base image)
C3_Witness ==
    /\ render.state = "resolved"
    /\ render.variant = "3-point"
    /\ \A k \in Markers3 : Present(render.coords[k])
    /\ Len(render.ops) = 12
    /\ IsLineStroke(render.ops[2]) /\ IsLineStroke(render.ops[3])
    /\ IsGlyphOp(render.ops[12])

\* the base image cannot be decoded or the 2D context cannot be acquired
RenderCannotPaint == ~render.decodes \/ ~render.hasContext

\* C14: a render whose base image cannot be decoded, or whose 2D context
\* cannot be acquired, fails: once it has settled its promise is rejected
\* with the error, it has painted nothing and has no output raster; and a
\* rejected render takes no further step (no retry, no substitute output).
C14_RenderFailureReachesCaller ==
    /\ [](render.state # "pending" /\ RenderCannotPaint =>
             /\ render.state = "rejected"
             /\ render.ops = <<>>
             /\ render.result \in {"Could not get canvas context",
                                   "error event"})
    /\ [][render.state = "rejected" => render' = render]_vars

\* a render rejected for want of a 2D context although its image decoded
C14_Witness ==
    /\ render.state = "rejected"
    /\ render.decodes /\ ~render.hasContext
    /\ render.result = "Could not get canvas context"

\* the number p equals v / 1000 * size (cross-multiplied)
IsScaled(p, v, size) == p.n * v.d * 1000 = v.n * size * p.d

\* the pixel px is the position pos scaled to the image
IsPixelOf(px, pos, img) ==
    /\ IsScaled(px.x, pos.x, img.width)
    /\ IsScaled(px.y, pos.y, img.height)

\* the centres of the glyph circles painted for marker k
GlyphCentres(k) == {render.ops[i].path.center : i \in GlyphOps(k, "fill")}

\* the end points of the strokes of segment seg
SegmentEnds(seg) ==
    {<<render.ops[i].path.from, render.ops[i].path.to>> : i \in SegmentStrokes(seg)}

\* C16: a present position (x, y) is painted at the pixel
\* (x / 1000 * width, y / 1000 * height) of the image, for every position
\* and image size: (0, 0) at (0, 0), (1000, 1000) at (width, height), and a
\* coordinate outside [0, 1000] at the pixel the same linear rule gives,
\* outside the image, neither rejected nor clamped.
C16_ToPixelIsLinear ==
    render.state = "resolved" =>
        /\ \A k \in KeysOf(render.variant) :
              \A c \in GlyphCentres(k) :
                  /\ IsPixelOf(c, render.coords[k], render.img)
                  /\ render.coords[k] = [x |-> NumInt(0), y |-> NumInt(0)] =>
                        c = [x |-> NumInt(0), y |-> NumInt(0)]
                  /\ render.coords[k] = [x |-> NumInt(1000), y |-> NumInt(1000)] =>
                        c = [x |-> NumInt(render.img.width),
                             y |-> NumInt(render.img.height)]
                  /\ render.coords[k] = [x |-> NumInt(1200), y |-> NumInt(-50)] =>
                        /\ NumLess(NumInt(render.img.width), c.x)
                        /\ NumLess(c.y, NumInt(0))
        /\ \A j \in DOMAIN DeclaredSegments(render.variant) :
              LET seg == DeclaredSegments(render.variant)[j]
              IN \A e \in SegmentEnds(seg) :
                     /\ IsPixelOf(e[1], render.coords[seg.a], render.img)
                     /\ IsPixelOf(e[2], render.coords[seg.b], render.img)
        /\ \A k \in Markers3 :
              render.variant = "3-point" /\ Present(render.coords[k]) =>
                  GlyphCentres(k) # {}

\* a render that painted the glyph of a marker lying outside [0, 1000] and a
\* segment ending at it
C16_Witness ==
    /\ render.state = "resolved"
    /\ render.variant = "3-point"
    /\ render.coords["2"] = [x |-> NumInt(1200), y |-> NumInt(-50)]
    /\ GlyphCentres("2") # {}
    /\ SegmentStrokes(DeclaredSegments("3-point")[2]) # {}

\* m is the larger of a and b
IsMax(m, a, b) == m \in {a, b} /\ ~NumLess(m, a) /\ ~NumLess(m, b)

\* the style kind of the segment stroked at the given step
StyleKind(step) ==
    CASE step = "1-A" -> render.styles.segment1A
      [] step = "A-2" -> render.styles.segmentA2
      [] step = "1-2" -> "red-solid"
      [] step = "3-4" -> "blue-dotted"

\* the style constants of a variant
StrokeConstants(variant) ==
    IF variant = "3-point"
    THEN [solid |-> "rgb(220, 38, 38)", dashed |-> "rgb(37, 99, 235)",
          minWidth |-> NumInt(1), widthFraction |-> Num(5, 1000),
          minDash |-> NumInt(2), dashFraction |-> Num(12, 1000)]
    ELSE [solid |-> "rgb(255, 0, 0)", dashed |-> "rgb(0, 0, 255)",
          minWidth |-> NumInt(3), widthFraction |-> Num(5, 1000),
          minDash |-> NumInt(5), dashFraction |-> Num(1, 100)]

\* the stroke o has the parameters of a segment of the given kind on an image
\* of width w
HasStrokeParameters(o, kind, w, k) ==
    /\ o.strokeStyle = (IF kind = "red-solid" THEN k.solid ELSE k.dashed)
    /\ IsMax(o.lineWidth, k.minWidth, NumMul(NumInt(w), k.widthFraction))
    /\ o.lineCap = "round"
    /\ kind = "red-solid" => o.lineDash = <<>>
    /\ kind = "blue-dotted" =>
          /\ Len(o.lineDash) = 2
          /\ o.lineDash[1] = o.lineDash[2]
          /\ IsMax(o.lineDash[1], k.minDash, NumMul(NumInt(w), k.dashFraction))

\* C17: the stroke parameters of a segment (colour, dash array, width) are
\* those its style kind and the image width determine: solid has an empty
\* dash array, dashed has [d, d] with d = max(minDash, W * dashFraction), the
\* width is max(minWidth, W * widthFraction). This holds for the second
\* segment whatever the kind of the first and whether or not it was drawn.
C17_StrokeParametersFromKindAndWidth ==
    render.state = "resolved" =>
        \A i \in DOMAIN render.ops :
            IsLineStroke(render.ops[i]) =>
                HasStrokeParameters(render.ops[i], StyleKind(render.ops[i].step),
                                    render.img.width,
                                    StrokeConstants(render.variant))

\* a solid second segment was stroked after a dashed first segment
C17_Witness ==
    /\ render.state = "resolved"
    /\ render.variant = "3-point"
    /\ render.styles = [segment1A |-> "blue-dotted", segmentA2 |-> "red-solid"]
    /\ SegmentStrokes(DeclaredSegments("3-point")[1]) # {}
    /\ SegmentStrokes(DeclaredSegments("3-point")[2]) # {}

-----------------------------------------------------------------------------
(* Properties of the manual placement controller (checked under Spec)      *)

\* the last handler that ran was handleImageClick
Clicked == lastEvent.op = "click"

\* the pointer-local offsets of the last click
ClickX == lastEvent.clientX - lastEvent.rect.left
ClickY == lastEvent.clientY - lastEvent.rect.top

\* the number v is (p / size) * 1000
IsNormalized(v, p, size) == v.n * size = 1000 * p * v.d

\* the raw normalized position of the last click
RawX == Num(1000 * ClickX, lastEvent.rect.width)
RawY == Num(1000 * ClickY, lastEvent.rect.height)

\* the position the last click committed for the marker it placed
Committed == markerCoords[lastEvent.marker]

\* the last click was made with the modifier held, for a marker whose
\* predecessor had a position
SnapCase == Clicked /\ lastEvent.shiftKey /\ Present(lastEvent.prevPoint)

\* |a - b| < |c - d| on the numbers of the model
DeltaLess(a, b, c, d) ==
    Abs(a.n * b.d - b.n * a.d) * c.d * d.d < Abs(c.n * d.d - d.n * c.d) * a.d * b.d

\* in the snap case, dx < dy
SnapDxLessDy ==
    DeltaLess(RawX, lastEvent.prevPoint.x, RawY, lastEvent.prevPoint.y)

At(x, y) == [x |-> NumInt(x), y |-> NumInt(y)]

\* C4: a snap click (modifier held, predecessor placed) commits
\* (pred.x, raw ny) when dx < dy and (raw nx, pred.y) when dx >= dy, the tie
\* included.
C4_SnapRule ==
    SnapCase =>
      /\ Present(Committed)
      /\ SnapDxLessDy => /\ Committed.x = lastEvent.prevPoint.x
                         /\ IsNormalized(Committed.y, ClickY, lastEvent.rect.height)
      /\ ~SnapDxLessDy => /\ Committed.y = lastEvent.prevPoint.y
                          /\ IsNormalized(Committed.x, ClickX, lastEvent.rect.width)

\* C4 witness: a snap click with 0 < dx < dy, which replaced x and kept y
C4_Witness ==
    /\ SnapCase
    /\ SnapDxLessDy
    /\ RawX # lastEvent.prevPoint.x
    /\ Committed.x = lastEvent.prevPoint.x
    /\ Committed.y = RawY

\* the last click was a snap click at raw (520, 480), predecessor (500, 500)
TieCase ==
    /\ SnapCase
    /\ lastEvent.prevPoint = At(500, 500)
    /\ RawX = NumInt(520) /\ RawY = NumInt(480)

\* C5 (as amended): predecessor (500, 500), snap click at raw (520, 480)
\* (dx = dy = 20): the committed position is (520, 500).
C5_TieCommits520_500 == TieCase => Committed = At(520, 500)

\* C5 witness: the tie case has happened
C5_Witness == TieCase /\ Committed.y = lastEvent.prevPoint.y

\* C5 as stated: the tie case commits (500, 480)
C5_Original_TieCommits500_480 == TieCase => Committed = At(500, 480)

\* the last click was a snap click at raw (520, 495), predecessor (500, 500)
WideCase ==
    /\ SnapCase
    /\ lastEvent.prevPoint = At(500, 500)
    /\ RawX = NumInt(520) /\ RawY = NumInt(495)

\* C6 (as amended): predecessor (500, 500), snap click at raw (520, 495)
\* (dx = 20 > dy = 5): the committed position is (520, 500), y forced to the
\* predecessor's y and x the raw value.
C6_WideCommits520_500 == WideCase => Committed = At(520, 500)

\* C6 witness: the dx > dy case has happened
C6_Witness == WideCase /\ Committed.x = RawX

\* C6 as stated: the dx > dy case commits (500, 495)
C6_Original_WideCommits500_495 == WideCase => Committed = At(500, 495)

\* the sequence 1 -> A -> 2 -> 2 of the claim
Successor(id) == CASE id = "1" -> "A" [] id = "A" -> "2" [] id = "2" -> "2"

\* C7: a placement moves the active marker 1 -> A -> 2 and leaves it at 2,
\* where it overwrites marker 2; after k consecutive placements from the
\* initial state the active marker is 1 (k = 0), A (k = 1), 2 (k >= 2).
C7_AutoAdvance ==
    /\ Clicked => /\ activeMarkerId = Successor(lastEvent.marker)
                  /\ Present(Committed)
    /\ placements = 0 => activeMarkerId = "1"
    /\ placements = 1 => activeMarkerId = "A"
    /\ placements >= 2 /\ placements # Interrupted => activeMarkerId = "2"
    /\ placements >= 3 /\ placements # Interrupted =>
         /\ Clicked => lastEvent.marker = "2"
         /\ \A k \in Markers3 : Present(markerCoords[k])

\* C7 witness: the fourth consecutive placement from the initial state has
\* overwritten marker 2 and the active marker is still 2
C7_Witness ==
    /\ placements = 4
    /\ Clicked
    /\ lastEvent.marker = "2"
    /\ activeMarkerId = "2"
    /\ IsNormalized(markerCoords["2"].x, ClickX, lastEvent.rect.width)

\* C8: without the modifier, for marker 1, or with the predecessor absent,
\* the committed position is exactly the raw normalized (nx, ny).
C8_NoSnapCommitsRaw ==
    Clicked /\ ~SnapCase =>
      /\ Present(Committed)
      /\ IsNormalized(Committed.x, ClickX, lastEvent.rect.width)
      /\ IsNormalized(Committed.y, ClickY, lastEvent.rect.height)

\* C8 witness: modifier held for marker A, selected by hand before marker 1
\* was placed; the raw position was committed
C8_Witness ==
    /\ Clicked
    /\ lastEvent.shiftKey
    /\ lastEvent.marker = "A"
    /\ lastEvent.prevPoint = Null
    /\ markerCoords["1"] = Null
    /\ Committed = [x |-> RawX, y |-> RawY]

\* C9: a placement writes the entry of the active marker and no other; a
\* placement or a selection never makes a placed marker absent; a placed
\* marker becomes absent only by reset, remove image or a loaded new image.
C9_PlacementFrame ==
    [][ /\ lastEvent'.op = "click" =>
             /\ lastEvent'.marker = activeMarkerId
             /\ Present(markerCoords'[activeMarkerId])
             /\ \A k \in Markers3 \ {activeMarkerId} :
                    markerCoords'[k] = markerCoords[k]
        /\ lastEvent'.op = "select" => markerCoords' = markerCoords
        /\ (\E k \in Markers3 : Present(markerCoords[k])
                                /\ ~Present(markerCoords'[k]))
             => lastEvent'.op \in {"reset", "remove", "loaded"}
      ]_vars

\* C9 witness: marker 1 was placed again while A and 2 had positions, and
\* they still have them
C9_Witness ==
    /\ Clicked
    /\ lastEvent.marker = "1"
    /\ Present(markerCoords["A"])
    /\ Present(markerCoords["2"])
    /\ markerCoords["A"] # markerCoords["2"]

\* C10: with an image shown every click is accepted, and the position it
\* commits is the unclamped (x / rect.width * 1000, y / rect.height * 1000),
\* in each coordinate unless the snap replaced that coordinate by the
\* predecessor's.
C10_PlacementNeverFailsNorClamps ==
    /\ ImageShown => ClickAccepted
    /\ Clicked =>
         /\ Present(Committed)
         /\ \/ IsNormalized(Committed.x, ClickX, lastEvent.rect.width)
            \/ SnapCase /\ Committed.x = lastEvent.prevPoint.x
         /\ \/ IsNormalized(Committed.y, ClickY, lastEvent.rect.height)
            \/ SnapCase /\ Committed.y = lastEvent.prevPoint.y

\* C10 witness: a click left of and below the displayed image committed a
\* position with x < 0 and y > 1000
C10_Witness ==
    /\ Clicked
    /\ ClickX < 0 /\ ClickY > lastEvent.rect.height
    /\ ~lastEvent.shiftKey
    /\ NumLess(Committed.x, NumInt(0))
    /\ NumLess(NumInt(1000), Committed.y)

\* C22: under every interleaving of upload completions and generation
\* completions, whenever the tool shows generated results in status SUCCESS,
\* each of them was rendered from the image that is the current original
\* image.
C22_ResultFromCurrentImage ==
    status = "SUCCESS" =>
        \A k \in DOMAIN resultImages : resultImages[k].img = originalImage

-----------------------------------------------------------------------------
(* Properties of the generation (checked under SpecGenerate)               *)

\* the generations whose tasks are running
Running == {g \in gens : g.pc = "run"}

\* handleGenerate has just shown the results of a generation
Generated == lastEvent.op = "generated"

\* the number of drawImage calls a canvas has received: one per render on it
DrawImages(ops) == Cardinality({k \in DOMAIN ops : ops[k].op = "drawImage"})

\* C11: a batch of n = 3 issues exactly 3 detector calls and issues none
\* again after a failure; a batch in which all 3 succeed returns exactly 3
\* outputs, and each returned marker map was rendered exactly once.
C11_BatchCallsAndOutputs ==
    /\ \A g \in Running : g.mode = "batch" => g.calls = 3 /\ Len(g.tasks) = 3
    /\ Generated /\ lastEvent.gen.mode = "batch" =>
          /\ lastEvent.gen.calls = 3
          /\ Len(resultImages) = 3
          /\ \A i \in 1..3 :
                /\ lastEvent.gen.tasks[i].coords \in DetectedMaps
                /\ DrawImages(lastEvent.gen.tasks[i].canvas.ops) = 1

\* a batch whose 3 detections and renders succeeded has returned
C11_Witness ==
    /\ Generated /\ lastEvent.gen.mode = "batch"
    /\ Len(resultImages) = 3

\* the catch branch of handleGenerate has just run on a rejected render or batch
GenerateFailedNow == lastEvent.op = "generateFailed"

\* C12: the batch is all-or-nothing. It rejects as soon as one of its tasks
\* (detection or render) rejects, so with the first error in time: no batch
\* still pending holds a rejected task. The caller then receives no raster,
\* whatever the other tasks did: the result list is empty, the status is
\* ERROR and an error is shown. Results are shown only when every task
\* resolved.
C12_AllOrNothing ==
    /\ \A g \in Running :
          g.settled = "pending" =>
              \A i \in DOMAIN g.tasks : g.tasks[i].stage # "rejected"
    /\ GenerateFailedNow =>
          /\ status = "ERROR"
          /\ resultImages = <<>>
          /\ error # NoError
    /\ Generated =>
          /\ \A i \in DOMAIN lastEvent.gen.tasks :
                lastEvent.gen.tasks[i].stage = "resolved"
          /\ Len(resultImages) = Len(lastEvent.gen.tasks)

\* a batch failed although another of its tasks had already succeeded
C12_Witness ==
    /\ GenerateFailedNow
    /\ lastEvent.resolved >= 1
    /\ status = "ERROR" /\ resultImages = <<>>

\* the raster one render of the marker map coords on the image of file i gives
RasterOf(coords, i) == ToDataURL(Draw3(coords, DefaultStyles, ImageOf(i)))

\* C13: whatever the order in which the 3 detection calls of a batch
\* complete, the i-th output returned is the render of the marker map the
\* i-th detection call returned, and of no other.
C13_OutputsMatchDetections ==
    Generated /\ lastEvent.gen.mode = "batch" =>
        \A i \in 1..3 :
            resultImages[i] = RasterOf(lastEvent.gen.tasks[i].coords,
                                       lastEvent.gen.img)

\* a batch returned whose tasks completed out of index order and whose first
\* two detections returned different maps
C13_Witness ==
    /\ Generated /\ lastEvent.gen.mode = "batch"
    /\ lastEvent.gen.order[1] # 1
    /\ lastEvent.gen.tasks[1].coords # lastEvent.gen.tasks[2].coords
    /\ resultImages[1] # resultImages[2]

\* v has the shape of a marker map of the 3-point variant: the keys of the
\* variant, each holding a position {x, y} or null
IsMarkerMap(v) ==
    /\ DOMAIN v = Markers3
    /\ \A k \in Markers3 : v[k] = Null \/ Present(v[k])

\* C15: the detector returns a value to its caller only when the content of
\* the response has the marker mapping shape; on any other content, on an
\* empty response and on an upstream error it fails. So every value a batch
\* callback received from its detector call is a marker map.
C15_DetectReturnsOnlyMarkerMaps ==
    \A g \in Running :
        g.mode = "batch" =>
            \A i \in DOMAIN g.tasks :
                g.tasks[i].stage \in {"render", "hung", "resolved"} =>
                    IsMarkerMap(g.tasks[i].coords)

\* the renders of g that have resolved
ResolvedTasks(g) == {i \in DOMAIN g.tasks : g.tasks[i].stage = "resolved"}

\* two resolved renders of g of the same marker map made the same painting
\* calls and gave the same raster
SameInputSameOutput(g) ==
    \A i, j \in ResolvedTasks(g) :
        g.tasks[i].coords = g.tasks[j].coords =>
            /\ g.tasks[i].canvas.ops = g.tasks[j].canvas.ops
            /\ g.tasks[i].out = g.tasks[j].out

SomeMarkerPlaced(coords) == \E k \in Markers3 : Present(coords[k])

\* the generation g took the manual path: one render of the placed map and
\* no detector call
OnManualPath(g) ==
    /\ g.mode = "manual"
    /\ g.calls = 0
    /\ Len(g.tasks) = 1
    /\ g.tasks[1].coords = g.coords

\* the generation g took the detection path: the batch of 3
OnDetectionPath(g) ==
    /\ g.mode = "batch"
    /\ g.calls = 3
    /\ Len(g.tasks) = 3

\* C19: handleGenerate takes the manual path iff at least one marker had a
\* position when the generation started: then the detector is never called
\* and exactly one output is produced, the render of the placed map. If all
\* markers were absent it runs the batch detection with n = 3. The two paths
\* exclude each other.
C19_ManualOrBatch ==
    /\ \A g \in Running :
          /\ SomeMarkerPlaced(g.coords) => OnManualPath(g)
          /\ ~SomeMarkerPlaced(g.coords) => OnDetectionPath(g)
          /\ ~(OnManualPath(g) /\ OnDetectionPath(g))
    /\ Generated =>
          IF SomeMarkerPlaced(lastEvent.gen.coords)
          THEN /\ OnManualPath(lastEvent.gen)
               /\ resultImages = << RasterOf(lastEvent.gen.coords,
                                             lastEvent.gen.img) >>
          ELSE /\ OnDetectionPath(lastEvent.gen)
               /\ Len(resultImages) = 3

\* a generation started with some but not all markers placed has shown its
\* single output
C19_Witness ==
    /\ Generated
    /\ SomeMarkerPlaced(lastEvent.gen.coords)
    /\ \E k \in Markers3 : lastEvent.gen.coords[k] = Null
    /\ Len(resultImages) = 1

\* the batches that have rejected and still have tasks running
RejectedBatches == {g \in Running : g.settled = "rejected"}

\* C20: once a batch has failed, the detection and render tasks of that
\* batch that complete later are discarded: a step of such a task leaves the
\* batch rejected and changes nothing the tool shows (status, result list,
\* error), so the status stays ERROR and the result list empty until a
\* handler of the user changes them.
C20_LateCompletionsDiscarded ==
    [][\A g \in RejectedBatches :
           g \notin gens' =>
               /\ UNCHANGED <<status, resultImages, error, originalImage,
                              markerCoords, activeMarkerId>>
               /\ \A h \in gens' \ gens :
                      /\ h.settled = "rejected"
                      /\ h.calls = g.calls]_vars

\* a task of a batch that had failed has just completed, and the tool still
\* shows the failure
C20_Witness ==
    /\ lastEvent.op = "taskSettled"
    /\ \A g \in Running : g.settled = "rejected"
    /\ status = "ERROR"
    /\ resultImages = <<>>

\* the painting calls one whole render of task t of g makes, and no others
OwnDrawSteps(g, t) == Draw3(t.coords, DefaultStyles, ImageOf(g.img)).ops

\* the surface of task t of g is untouched, or holds exactly the draw steps
\* of t's own render, all of them made in the one step that settled it (a
\* render whose handler threw on null coords holds its base image only)
SurfaceOwned(g, t) ==
    /\ t.stage \in {"detect", "render", "rejected"} => t.canvas = Undefined
    /\ t.stage = "resolved" =>
          /\ t.canvas.ops = OwnDrawSteps(g, t)
          /\ DrawImages(t.canvas.ops) = 1
          /\ t.out = ToDataURL(t.canvas)
    /\ t.stage = "hung" =>
          t.canvas.ops = << [op |-> "drawImage", img |-> ImageOf(g.img)] >>

\* C21: when several renders of a batch are in flight, each render paints on
\* a surface of its own and makes all of its draw steps (base image,
\* segments, markers, encoding) in one step: no state holds a surface on
\* which a render has begun and not ended, so no draw step of another render
\* falls between two of its steps, and no surface holds draw steps of two
\* renders.
C21_RenderOwnsSurface ==
    /\ \A g \in Running :
          \A i \in DOMAIN g.tasks :
              g.tasks[i].stage # "discarded" => SurfaceOwned(g, g.tasks[i])
    /\ Generated =>
          \A i \in DOMAIN lastEvent.gen.tasks :
              SurfaceOwned(lastEvent.gen, lastEvent.gen.tasks[i])

\* one render of a batch has painted and resolved while two others are in
\* flight
C21_Witness ==
    \E g \in Running :
        /\ g.mode = "batch" /\ g.settled = "pending"
        /\ g.tasks[2].stage = "resolved"
        /\ g.tasks[1].stage = "render"
        /\ g.tasks[3].stage = "render"

-----------------------------------------------------------------------------
(* Termination of a generation (checked under SpecGenerateFair)            *)

\* await checkAndRequestApiKey() returns
KeyReturns ==
    \E g \in gens : GenerateKeyFailed(g) \/ GenerateStartTasks(g)

\* every detector call returns: generateContent fulfils or rejects
DetectorReturns ==
    \E g \in gens, i \in 1..3, r \in Responses : DetectSettles(g, i, r)

\* every image decodes or fails to decode: the browser calls img.onload or
\* img.onerror of an image whose src was set
ImageSettles ==
    \E g \in gens, i \in 1..3 :
        \/ \E h \in BOOLEAN : TaskImgOnload(g, i, h)
        \/ TaskImgOnerror(g, i)

\* the generation model in which every pending callback is eventually run
SpecGenerateFair ==
    /\ SpecGenerate
    /\ WF_vars(KeyReturns)
    /\ WF_vars(DetectorReturns)
    /\ WF_vars(ImageSettles)

\* C23: every render call eventually settles, for any value that
\* detectMarkerCoordinates can return and any image that decodes or fails to
\* decode, so that a generation that entered status LOADING eventually
\* reaches SUCCESS or ERROR provided every detector call returns.
C23_GenerationSettles ==
    (status = "LOADING") ~> (status \in {"SUCCESS", "ERROR"})

====
